---- MODULE Spec2Model ----
(***************************************************************************)
(* Ports and port namespaces of plumpy (src/plumpy/ports.py), and its     *)
(* communicator wrapper (src/plumpy/communications.py).                    *)
(*                                                                         *)
(* Python objects live in a heap: a sequence of object records, an         *)
(* object's identity being its index.  A PortNamespace's _ports dictionary *)
(* maps child names to object identities.  Python values supplied to       *)
(* validate/project are value records (kind, items).                       *)
(***************************************************************************)
EXTENDS Integers, Sequences, FiniteSets, TLC

VARIABLES heap, last

vars == <<heap, last>>

(***************************************************************************)
(* Bounds of the model.                                                    *)
(***************************************************************************)
MaxObj == 3
MaxPathLen == 2
MaxOptions == 1
MaxMutations == 2
MaxWrappers == 3
MaxConverted == 3
MaxMessages == 2

(***************************************************************************)
(* Python values.  UNSPECIFIED is the empty tuple ().                      *)
(***************************************************************************)
EmptyMap == [n \in {} |-> 0]
Merge(f, g) == [n \in DOMAIN f \cup DOMAIN g |-> IF n \in DOMAIN f THEN f[n] ELSE g[n]]

UNSPECIFIED == [kind |-> "tuple", items |-> EmptyMap]
NoneValue == [kind |-> "NoneType", items |-> EmptyMap]
IntValue == [kind |-> "int", items |-> EmptyMap]
StrValue == [kind |-> "str", items |-> EmptyMap]
DictValue(m) == [kind |-> "dict", items |-> m]

\* value is UNSPECIFIED (identity with the empty tuple)
IsUnspecified(v) == v.kind = "tuple"

\* isinstance(value, valid_type) for a plain value
IsInstance(v, t) == v.kind = t

\* isinstance(value, PortNamespace): false of every plain data value
IsPortNamespaceInstance(v) == v.kind = "PortNamespace"

(***************************************************************************)
(* Objects.  Every object carries the ValueSpec attributes; the            *)
(* PortNamespace attributes (_default, _dynamic, _ports) are meaningful    *)
(* for cls = "PortNamespace" only.  None is the string "None".             *)
(***************************************************************************)
ValueSpec_init(cls, name, valid_type, help, required, validator) ==
    [cls |-> cls, name |-> name, valid_type |-> valid_type, help |-> help,
     required |-> required, validator |-> validator,
     default |-> UNSPECIFIED, dynamic |-> FALSE, ports |-> EmptyMap]

\* InputPort.required_override(required, default)
required_override(required, default) ==
    IF IsUnspecified(default) THEN required ELSE FALSE

\* OutputPort(name, valid_type, required, help): no validator argument
OutputPort_init(name, valid_type, required, help) ==
    [ValueSpec_init("OutputPort", name, valid_type, help, TRUE, "None")
        EXCEPT !.required = required]

\* PortNamespace(name, help, required, validator, valid_type, default, dynamic):
\* _valid_type is stored by ValueSpec.__init__, _dynamic by the constructor
PortNamespace_init(name, help, required, validator, valid_type, default, dynamic) ==
    [ValueSpec_init("PortNamespace", name, valid_type, help, required, validator)
        EXCEPT !.default = default, !.dynamic = dynamic]

IsNamespace(o) == o.cls = "PortNamespace"

(***************************************************************************)
(* Results of validate: a returned (is_valid, message) pair or a raised    *)
(* exception; called is the set of objects whose validate was invoked by   *)
(* the call (the callee excluded).                                         *)
(***************************************************************************)
Return(ok, msg, called) ==
    [kind |-> "return", ok |-> ok, msg |-> msg, called |-> called]
Raise(exc, called) ==
    [kind |-> "raise", ok |-> FALSE, msg |-> exc, called |-> called]

(***************************************************************************)
(* Custom validators.  A leaf validator is called with the value and       *)
(* returns a bool or a (bool, message) pair; a namespace validator is      *)
(* called with (namespace, port_values) and returns a pair.                *)
(***************************************************************************)
LeafValidators == {"None", "ret_true", "ret_false", "pair_reject_unspecified"}
NamespaceValidators == {"None", "ns_accept", "ns_reject"}

CallLeafValidator(validator, v) ==
    CASE validator = "ret_true" -> [shape |-> "bool", ok |-> TRUE, msg |-> "None"]
      [] validator = "ret_false" -> [shape |-> "bool", ok |-> FALSE, msg |-> "None"]
      [] validator = "pair_reject_unspecified" ->
            IF IsUnspecified(v)
            THEN [shape |-> "pair", ok |-> FALSE, msg |-> "validator: no value"]
            ELSE [shape |-> "pair", ok |-> TRUE, msg |-> "None"]

CallNamespaceValidator(validator, pv) ==
    CASE validator = "ns_accept" -> [ok |-> TRUE, msg |-> "None"]
      [] validator = "ns_reject" -> [ok |-> FALSE, msg |-> "namespace validator"]

(***************************************************************************)
(* ValueSpec.validate                                                      *)
(***************************************************************************)
ValueSpec_validator_step(self, v) ==
    IF self.validator # "None"
    THEN LET result == CallLeafValidator(self.validator, v)
         IN  IF result.shape = "pair" THEN Return(result.ok, result.msg, {})
             ELSE IF result.ok = FALSE THEN Return(FALSE, "Value failed validation", {})
             ELSE Return(TRUE, "None", {})
    ELSE Return(TRUE, "None", {})

\* validate that never hands UNSPECIFIED to the custom validator
ValueSpec_validate_skip_validator(self, v) ==
    IF IsUnspecified(v)
    THEN IF self.required
         THEN Return(FALSE, "required value was not provided", {})
         ELSE Return(TRUE, "None", {})
    ELSE IF self.valid_type # "None" /\ ~IsInstance(v, self.valid_type)
         THEN Return(FALSE, "value is not of the right type", {})
         ELSE ValueSpec_validator_step(self, v)

ValueSpec_validate(self, v) ==
    IF IsUnspecified(v)
    THEN IF self.required
         THEN Return(FALSE, "required value was not provided", {})
         ELSE ValueSpec_validator_step(self, v)
    ELSE IF self.valid_type # "None" /\ ~IsInstance(v, self.valid_type)
         THEN Return(FALSE, "value is not of the right type", {})
         ELSE ValueSpec_validator_step(self, v)

(***************************************************************************)
(* PortNamespace.validate, validate_ports, validate_dynamic_ports          *)
(***************************************************************************)
\* iteration order of a dictionary: its keys in the order of Names
NameOrder == <<"", "a", "b", "c">>
RECURSIVE KeysFrom(_, _)
KeysFrom(m, i) ==
    IF i > Len(NameOrder) THEN <<>>
    ELSE IF NameOrder[i] \in DOMAIN m
         THEN <<NameOrder[i]>> \o KeysFrom(m, i + 1)
         ELSE KeysFrom(m, i + 1)
Keys(m) == KeysFrom(m, 1)

\* dict.pop(name, UNSPECIFIED): the value and the remaining dictionary
PopValue(pv, name) == IF name \in DOMAIN pv THEN pv[name] ELSE UNSPECIFIED
PopRest(pv, name) == [k \in DOMAIN pv \ {name} |-> pv[k]]

validate_dynamic_ports(self, pv) ==
    IF DOMAIN pv # {} /\ ~self.dynamic
    THEN Return(FALSE, "Unexpected ports for a non dynamic namespace", {})
    ELSE IF self.valid_type # "None"
            /\ \E k \in DOMAIN pv : ~IsInstance(pv[k], self.valid_type)
         THEN Return(FALSE, "Invalid type for dynamic port value", {})
         ELSE Return(TRUE, "None", {})

RECURSIVE validate(_, _, _)
RECURSIVE validate_ports_loop(_, _, _, _, _)

\* port.validate(value): dispatch on the class of the port
Port_validate(h, id, v) ==
    IF IsNamespace(h[id]) THEN validate(h, id, v) ELSE ValueSpec_validate(h[id], v)

\* the loop of validate_ports over names, from (port_values, called so far)
validate_ports_loop(h, id, names, pv, called) ==
    IF names = <<>>
    THEN [res |-> Return(TRUE, "None", called), rest |-> pv]
    ELSE LET name == Head(names)
             port == h[id].ports[name]
             r == Port_validate(h, port, PopValue(pv, name))
             now == called \cup {port} \cup r.called
         IN  IF r.kind = "raise" \/ ~r.ok
             THEN [res |-> [r EXCEPT !.called = now], rest |-> PopRest(pv, name)]
             ELSE validate_ports_loop(h, id, Tail(names), PopRest(pv, name), now)

validate_ports(h, id, pv) ==
    validate_ports_loop(h, id, Keys(h[id].ports), pv, {})

\* validate without the shortcut for an optional namespace given no values
validate_no_shortcut(h, id, v) ==
    LET self == h[id] IN
    IF v.kind \notin {"NoneType", "dict", "tuple"}
    THEN Raise("TypeError", {})
    ELSE
    LET pv == IF v.kind = "dict" THEN v.items ELSE EmptyMap
        checked == IF self.validator # "None"
                   THEN CallNamespaceValidator(self.validator, pv)
                   ELSE [ok |-> TRUE, msg |-> "None"]
    IN  IF ~checked.ok THEN Return(FALSE, checked.msg, {})
        ELSE LET p == validate_ports(h, id, pv) IN
             IF p.res.kind = "raise" \/ ~p.res.ok THEN p.res
             ELSE LET d == validate_dynamic_ports(self, p.rest)
                  IN  [d EXCEPT !.called = p.res.called]

validate(h, id, v) ==
    LET self == h[id] IN
    IF v.kind \notin {"NoneType", "dict", "tuple"}
    THEN Raise("TypeError", {})       \* dict(port_values) of a scalar
    ELSE
    LET pv == IF v.kind = "dict" THEN v.items ELSE EmptyMap
        checked == IF self.validator # "None"
                   THEN CallNamespaceValidator(self.validator, pv)
                   ELSE [ok |-> TRUE, msg |-> "None"]
    IN  IF ~checked.ok THEN Return(FALSE, checked.msg, {})
        ELSE IF DOMAIN pv = {} /\ ~self.required
        THEN Return(checked.ok, checked.msg, {})
        ELSE LET p == validate_ports(h, id, pv) IN
             IF p.res.kind = "raise" \/ ~p.res.ok THEN p.res
             ELSE LET d == validate_dynamic_ports(self, p.rest)
                  IN  [d EXCEPT !.called = p.res.called]

(***************************************************************************)
(* PortNamespace.project                                                   *)
(***************************************************************************)
RECURSIVE project(_, _, _)
project(h, id, port_values) ==
    [name \in {n \in DOMAIN port_values : n \in DOMAIN h[id].ports} |->
        IF IsPortNamespaceInstance(port_values[name])
        THEN DictValue(project(h, h[id].ports[name], port_values[name].items))
        ELSE port_values[name]]

(***************************************************************************)
(* Dotted names.  A string is modelled by the list of its segments, that   *)
(* is by name.split('.'): "a.b" is <<"a", "b">>, "a." is <<"a", "">>, and  *)
(* the empty string is <<"">>.  '.'.join(namespace) is the tail.           *)
(***************************************************************************)
Segments == {"", "a"}
RECURSIVE NamesUpTo(_)
NamesUpTo(n) ==
    IF n = 0 THEN {}
    ELSE NamesUpTo(n - 1) \cup [1..n -> Segments]
DottedNames == NamesUpTo(MaxPathLen)

\* not name: the empty string
IsEmptyName(name) == name = <<"">>

(***************************************************************************)
(* Heap updates                                                            *)
(***************************************************************************)
\* a new object: its identity is the next index
Allocate(h, o) == Append(h, o)
NewId(h) == Len(h) + 1

\* PortNamespace.__setitem__: self._ports[key] = port
SetPort(h, id, key, port) ==
    [h EXCEPT ![id].ports =
        [n \in DOMAIN h[id].ports \cup {key} |->
            IF n = key THEN port ELSE h[id].ports[n]]]

\* PortNamespace.__delitem__: del self._ports[key]
DelPort(h, id, key) ==
    [h EXCEPT ![id].ports = [n \in DOMAIN h[id].ports \ {key} |-> h[id].ports[n]]]

\* a keyword argument, or the default of the constructor's signature
Kw(kwargs, key, default) == IF key \in DOMAIN kwargs THEN kwargs[key] ELSE default

\* self.__class__(port_name, **kwargs)
PortNamespace_new(name, kwargs) ==
    PortNamespace_init(name,
                       Kw(kwargs, "help", "None"),
                       Kw(kwargs, "required", TRUE),
                       Kw(kwargs, "validator", "None"),
                       Kw(kwargs, "valid_type", "None"),
                       Kw(kwargs, "default", UNSPECIFIED),
                       Kw(kwargs, "dynamic", FALSE))

(***************************************************************************)
(* PortNamespace.get_port                                                  *)
(***************************************************************************)
Returned(h, ret) == [outcome |-> "return", ret |-> ret, heap |-> h]
Raised(h, exc) == [outcome |-> "raise", ret |-> exc, heap |-> h]

\* get_port answering a missing segment with the namespace reached so far
RECURSIVE get_port_partial(_, _, _)
get_port_partial(h, id, name) ==
    IF IsEmptyName(name) THEN Raised(h, "ValueError")
    ELSE LET port_name == Head(name)
             namespace == Tail(name)
         IN  IF port_name \notin DOMAIN h[id].ports THEN Returned(h, id)
             ELSE IF namespace # <<>>
                  THEN IF IsNamespace(h[h[id].ports[port_name]])
                       THEN get_port_partial(h, h[id].ports[port_name], namespace)
                       ELSE Raised(h, "AttributeError")
                  ELSE Returned(h, h[id].ports[port_name])

RECURSIVE get_port(_, _, _)
get_port(h, id, name) ==
    IF IsEmptyName(name) THEN Raised(h, "ValueError")
    ELSE LET port_name == Head(name)
             namespace == Tail(name)
         IN  IF port_name \notin DOMAIN h[id].ports THEN Raised(h, "ValueError")
             ELSE IF namespace # <<>>
                  THEN IF IsNamespace(h[h[id].ports[port_name]])
                       THEN get_port(h, h[id].ports[port_name], namespace)
                       ELSE Raised(h, "AttributeError")   \* a leaf has no get_port
                  ELSE Returned(h, h[id].ports[port_name])

(***************************************************************************)
(* PortNamespace.create_port_namespace                                     *)
(***************************************************************************)
RECURSIVE create_port_namespace(_, _, _, _)

\* create_port_namespace constructing the terminal namespace anew each time
RECURSIVE create_port_namespace_always_new(_, _, _, _)
create_port_namespace_always_new(h, id, name, kwargs) ==
    IF IsEmptyName(name) THEN Raised(h, "ValueError")
    ELSE LET port_name == Head(name)
             namespace == Tail(name)
             present == port_name \in DOMAIN h[id].ports
         IN  IF present /\ ~IsNamespace(h[h[id].ports[port_name]])
             THEN Raised(h, "ValueError")
             ELSE LET created ==
                        IF ~present \/ namespace = <<>>
                        THEN SetPort(Allocate(h, PortNamespace_new(port_name,
                                        IF namespace # <<>> THEN EmptyMap ELSE kwargs)),
                                     id, port_name, NewId(h))
                        ELSE h
                  IN  IF namespace # <<>>
                      THEN create_port_namespace_always_new(
                                created, created[id].ports[port_name], namespace, kwargs)
                      ELSE Returned(created, created[id].ports[port_name])

create_port_namespace(h, id, name, kwargs) ==
    IF IsEmptyName(name) THEN Raised(h, "ValueError")
    ELSE LET port_name == Head(name)
             namespace == Tail(name)
             present == port_name \in DOMAIN h[id].ports
         IN  IF present /\ ~IsNamespace(h[h[id].ports[port_name]])
             THEN Raised(h, "ValueError")
             ELSE LET created ==
                        IF ~present
                        THEN SetPort(Allocate(h, PortNamespace_new(port_name,
                                        IF namespace # <<>> THEN EmptyMap ELSE kwargs)),
                                     id, port_name, NewId(h))
                        ELSE h
                  IN  IF namespace # <<>>
                      THEN create_port_namespace(
                                created, created[id].ports[port_name], namespace, kwargs)
                      ELSE Returned(created, created[id].ports[port_name])

(***************************************************************************)
(* Property assignment and PortNamespace.absorb                            *)
(***************************************************************************)
\* the properties of PortNamespace that have a setter
MutableProperties == {"default", "dynamic", "help", "required", "valid_type", "validator"}
is_mutable_property(attr) == attr \in MutableProperties

\* dir(port_namespace) lists attribute names in alphabetical order
AttributeOrder == <<"default", "dynamic", "help", "name", "ports", "required",
                    "valid_type", "validator">>

\* getattr(o, attr)
GetAttr(o, attr) ==
    CASE attr = "default" -> o.default
      [] attr = "dynamic" -> o.dynamic
      [] attr = "help" -> o.help
      [] attr = "required" -> o.required
      [] attr = "valid_type" -> o.valid_type
      [] attr = "validator" -> o.validator

\* the valid_type setter of PortNamespace
PortNamespace_set_valid_type(o, valid_type) ==
    [o EXCEPT !.dynamic = (valid_type # "None"), !.valid_type = valid_type]

\* setattr(o, attr, value) on a PortNamespace
SetAttr(o, attr, value) ==
    CASE attr = "default" -> [o EXCEPT !.default = value]
      [] attr = "dynamic" -> [o EXCEPT !.dynamic = value]
      [] attr = "help" -> [o EXCEPT !.help = value]
      [] attr = "required" -> [o EXCEPT !.required = value]
      [] attr = "valid_type" -> PortNamespace_set_valid_type(o, value)
      [] attr = "validator" -> [o EXCEPT !.validator = value]

\* the loop over dir(port_namespace), from position i
RECURSIVE absorb_attributes(_, _, _, _)
absorb_attributes(self, other, namespace_options, i) ==
    IF i > Len(AttributeOrder) THEN self
    ELSE LET attr == AttributeOrder[i]
         IN  IF is_mutable_property(attr)
             THEN absorb_attributes(
                    SetAttr(self, attr,
                            IF attr \in DOMAIN namespace_options
                            THEN namespace_options[attr]
                            ELSE GetAttr(other, attr)),
                    other, namespace_options, i + 1)
             ELSE absorb_attributes(self, other, namespace_options, i + 1)

\* the keys of namespace_options the loop did not pop
Unconsumed(namespace_options) ==
    {k \in DOMAIN namespace_options : ~is_mutable_property(k)}

\* include=None is [given |-> FALSE]; a tuple of names is [given |-> TRUE]
NoInclude == [given |-> FALSE, names |-> {}]
Include(names) == [given |-> TRUE, names |-> names]

\* _filter_ports raises: exclude and include is not None
filter_raises(exclude, include) == exclude # {} /\ include.given

\* _filter_ports: the names it yields, in the order of items
RECURSIVE filter_ports(_, _, _)
filter_ports(names, exclude, include) ==
    IF names = <<>> THEN <<>>
    ELSE IF (IF include.given THEN Head(names) \notin include.names
                              ELSE Head(names) \in exclude)
         THEN filter_ports(Tail(names), exclude, include)
         ELSE <<Head(names)>> \o filter_ports(Tail(names), exclude, include)

\* a copy that is the port itself: no new object
deepcopy_shared(h, id) == [heap |-> h, id |-> id]

\* copy.deepcopy(port): new objects for the port and everything below it
RECURSIVE deepcopy(_, _)
RECURSIVE deepcopy_ports(_, _, _, _)
deepcopy_ports(h, ports, names, copied) ==
    IF names = <<>> THEN [heap |-> h, ports |-> copied]
    ELSE LET d == deepcopy(h, ports[Head(names)])
         IN  deepcopy_ports(d.heap, ports, Tail(names),
                            Merge(copied, [n \in {Head(names)} |-> d.id]))
deepcopy(h, id) ==
    LET c == deepcopy_ports(h, h[id].ports, Keys(h[id].ports), EmptyMap)
    IN  [heap |-> Allocate(c.heap, [h[id] EXCEPT !.ports = c.ports]),
         id |-> NewId(c.heap)]

\* the loop of absorb over the filtered ports
RECURSIVE absorb_ports(_, _, _, _)
absorb_ports(h, self, other, names) ==
    IF names = <<>> THEN h
    ELSE LET d == deepcopy(h, h[other].ports[Head(names)])
         IN  absorb_ports(SetPort(d.heap, self, Head(names), d.id), self, other, Tail(names))

absorb(h, self, other, exclude, include, namespace_options) ==
    IF ~IsNamespace(h[other]) THEN Raised(h, "ValueError")
    ELSE LET set == [h EXCEPT ![self] =
                        absorb_attributes(h[self], h[other], namespace_options, 1)]
         IN  IF Unconsumed(namespace_options) # {} THEN Raised(set, "ValueError")
             ELSE IF filter_raises(exclude, include) THEN Raised(set, "ValueError")
             ELSE LET names == filter_ports(Keys(h[other].ports), exclude, include)
                  IN  Returned(absorb_ports(set, self, other, names), names)

(***************************************************************************)
(* The record of the last operation: its name, the object it was called    *)
(* on, its arguments, the heap before the call, and whether it returned    *)
(* or raised, with the returned value.                                     *)
(***************************************************************************)
Called(op, self, arg, pre, outcome, ret) ==
    [op |-> op, self |-> self, arg |-> arg, pre |-> pre,
     outcome |-> outcome, ret |-> ret]

NoCall == Called("none", 0, "None", <<>>, "none", "None")

(***************************************************************************)
(* Validation of supplied values against a built schema tree.              *)
(* The schema: a root namespace (object 1) that may declare a leaf "a"     *)
(* (object 2) and a child namespace "b" (object 3), which may declare a    *)
(* leaf "a" (object 4).  "c" is a name no namespace declares.              *)
(***************************************************************************)
ValidTypes == {"None", "int"}

PartialFunctions(K, V) == UNION {[S -> V] : S \in SUBSET K}

LeafValues == {IntValue, StrValue}
NestedValues ==
    {IntValue, NoneValue}
        \cup {DictValue(m) : m \in PartialFunctions({"a", "c"}, {IntValue})}
PortValues ==
    {NoneValue, UNSPECIFIED, IntValue}
        \cup {DictValue(m) : m \in
                {f \in PartialFunctions({"a", "b", "c"}, LeafValues \cup NestedValues) :
                    \A k \in DOMAIN f : IF k = "b" THEN f[k] \in NestedValues
                                                   ELSE f[k] \in LeafValues}}

RootNamespaces ==
    {PortNamespace_init("None", "None", required, validator, valid_type, UNSPECIFIED, dynamic) :
        required \in BOOLEAN, validator \in NamespaceValidators,
        valid_type \in ValidTypes, dynamic \in BOOLEAN}
ChildNamespaces ==
    {PortNamespace_init("b", "None", required, validator, "None", UNSPECIFIED, dynamic) :
        required \in BOOLEAN, validator \in {"None", "ns_reject"}, dynamic \in BOOLEAN}
InputPorts ==
    {ValueSpec_init("InputPort", "a", valid_type, "None", required, validator) :
        valid_type \in ValidTypes, required \in BOOLEAN, validator \in LeafValidators}
OutputPorts ==
    {OutputPort_init("a", "None", required, "None") : required \in BOOLEAN}

Link(S, name, id) == IF S THEN [n \in {name} |-> id] ELSE EmptyMap

\* an object nothing refers to is left as first constructed
DefaultInputPort == ValueSpec_init("InputPort", "a", "None", "None", TRUE, "None")
DefaultChild == PortNamespace_init("b", "None", TRUE, "None", "None", UNSPECIFIED, FALSE)
DefaultOutputPort == OutputPort_init("a", "None", TRUE, "None")

MakeHeap(root, hasA, hasB, hasBA, leaf, child, inner) ==
    <<[root EXCEPT !.ports = Merge(Link(hasA, "a", 2), Link(hasB, "b", 3))],
      leaf,
      [child EXCEPT !.ports = Link(hasBA, "a", 4)],
      inner>>

SchemaHeaps ==
    UNION {UNION {UNION {
        {MakeHeap(root, hasA, hasB, hasBA, leaf, child, inner) :
            root \in RootNamespaces,
            leaf \in IF hasA THEN InputPorts ELSE {DefaultInputPort},
            child \in IF hasB THEN ChildNamespaces ELSE {DefaultChild},
            inner \in IF hasB /\ hasBA THEN OutputPorts ELSE {DefaultOutputPort}} :
        hasA \in BOOLEAN} : hasB \in BOOLEAN} : hasBA \in BOOLEAN}

\* the schemas project is applied to: project reads nothing but _ports
PlainHeaps ==
    {h \in SchemaHeaps :
        /\ h[1] = [h[1] EXCEPT !.required = TRUE, !.validator = "None",
                               !.valid_type = "None", !.dynamic = FALSE]
        /\ h[2] = [DefaultInputPort EXCEPT !.ports = h[2].ports]
        /\ h[3] = [DefaultChild EXCEPT !.ports = h[3].ports]
        /\ h[4].cls = "OutputPort"}

\* a call about to be made: the schema is built, the arguments are chosen
InitValidate ==
    \/ /\ heap \in SchemaHeaps
       /\ \E v \in PortValues : last = Called("validate", 1, v, heap, "pending", "None")
    \/ /\ heap \in {h \in SchemaHeaps : "a" \in DOMAIN h[1].ports}
       /\ \E v \in LeafValues \cup {UNSPECIFIED} :
            last = Called("validate", 2, v, heap, "pending", "None")
    \/ /\ heap \in {h \in PlainHeaps : "a" \in DOMAIN h[3].ports}
       /\ \E v \in LeafValues \cup {UNSPECIFIED} :
            last = Called("validate", 4, v, heap, "pending", "None")
    \/ /\ heap \in PlainHeaps
       /\ \E v \in {w \in PortValues : w.kind = "dict"} :
            last = Called("project", 1, v, heap, "pending", "None")

Pending(op) == last.outcome = "pending" /\ last.op = op

\* namespace.validate(port_values)
Validate ==
    /\ Pending("validate")
    /\ IsNamespace(heap[last.self])
    /\ LET r == validate(heap, last.self, last.arg)
       IN  last' = [last EXCEPT !.outcome = r.kind, !.ret = r]
    /\ UNCHANGED heap

\* leaf.validate(value)
LeafValidate ==
    /\ Pending("validate")
    /\ ~IsNamespace(heap[last.self])
    /\ LET r == ValueSpec_validate(heap[last.self], last.arg)
       IN  last' = [last EXCEPT !.outcome = r.kind, !.ret = r]
    /\ UNCHANGED heap

\* namespace.project(port_values)
Project ==
    /\ Pending("project")
    /\ last' = [last EXCEPT !.outcome = "return",
                            !.ret = DictValue(project(heap, last.self, last.arg.items))]
    /\ UNCHANGED heap

NextValidate == Validate \/ LeafValidate \/ Project

SpecValidate == InitValidate /\ [][NextValidate]_vars

(***************************************************************************)
(* Properties of validate and project, checked under SpecValidate.         *)
(***************************************************************************)
Done(op) == last.op = op /\ last.outcome # "pending"
Succeeded(r) == r.kind = "return" /\ r.ok
Rejected(r) == r.kind = "return" /\ ~r.ok

\* the mapping validate works on: {} for None and for UNSPECIFIED
GivenValues(v) == IF v.kind = "dict" THEN v.items ELSE EmptyMap
IsMappingOrEmpty(v) == v.kind \in {"dict", "NoneType", "tuple"}

ChildResult(h, id, pv, n) == Port_validate(h, h[id].ports[n], PopValue(pv, n))
DeclaredOk(h, id, pv) ==
    \A n \in DOMAIN h[id].ports : Succeeded(ChildResult(h, id, pv, n))
UndeclaredOk(h, id, pv) ==
    LET extra == DOMAIN pv \ DOMAIN h[id].ports
    IN  \/ extra = {}
        \/ /\ h[id].dynamic
           /\ h[id].valid_type # "None" =>
                \A k \in extra : IsInstance(pv[k], h[id].valid_type)

RequiredPlainCall ==
    /\ Done("validate")
    /\ IsNamespace(heap[last.self])
    /\ heap[last.self].required
    /\ heap[last.self].validator = "None"
    /\ IsMappingOrEmpty(last.arg)

ValidateCharacterised ==
    LET pv == GivenValues(last.arg)
        good == DeclaredOk(heap, last.self, pv) /\ UndeclaredOk(heap, last.self, pv)
    IN  /\ Succeeded(last.ret) <=> good
        /\ ~good => Rejected(last.ret)
        /\ ~DeclaredOk(heap, last.self, pv) =>
              \E n \in DOMAIN heap[last.self].ports :
                  /\ ~Succeeded(ChildResult(heap, last.self, pv, n))
                  /\ last.ret.msg = ChildResult(heap, last.self, pv, n).msg

\* C1: a required namespace without a validator succeeds exactly when every
\* declared child validates and the undeclared keys are none, or allowed by
\* dynamic and of valid_type; otherwise it returns (false, message), a
\* failing declared child being reported first.
C1_ValidateCharacterised == RequiredPlainCall => ValidateCharacterised

\* C1 restricted to the calls in which no declared child raises: the
\* characterisation holds of those.
C1_CharacterisedUnlessChildRaises ==
    (RequiredPlainCall
        /\ \A n \in DOMAIN heap[last.self].ports :
              ChildResult(heap, last.self, GivenValues(last.arg), n).kind = "return")
    => ValidateCharacterised

LeafCallUnspecified ==
    /\ Done("validate")
    /\ ~IsNamespace(heap[last.self])
    /\ IsUnspecified(last.arg)

\* C2 (as claimed): validate(UNSPECIFIED) of a leaf port succeeds if and only
\* if required is false, whatever valid_type and validator are.
C2_UnspecifiedIffNotRequired ==
    LeafCallUnspecified => (Succeeded(last.ret) <=> ~heap[last.self].required)

\* the custom validator, handed UNSPECIFIED, does not reject it
AcceptsUnspecified(validator) ==
    \/ validator = "None"
    \/ LET result == CallLeafValidator(validator, UNSPECIFIED)
       IN  result.ok

\* C2 (amended): validate(UNSPECIFIED) of a leaf port fails when required is
\* true; when required is false the custom validator, if any, is called
\* with UNSPECIFIED and decides; valid_type plays no part.
C2_UnspecifiedAmended ==
    LeafCallUnspecified =>
        /\ last.outcome = "return"
        /\ Succeeded(last.ret) <=>
              (~heap[last.self].required /\ AcceptsUnspecified(heap[last.self].validator))

\* C2 witness: an optional port whose validator rejects UNSPECIFIED was asked
C2_Witness ==
    /\ LeafCallUnspecified
    /\ ~heap[last.self].required
    /\ heap[last.self].validator = "ret_false"
    /\ heap[last.self].valid_type = "int"
    /\ Rejected(last.ret)

EmptyOptionalCall ==
    /\ Done("validate")
    /\ IsNamespace(heap[last.self])
    /\ ~heap[last.self].required
    /\ heap[last.self].validator \in {"None", "ns_accept"}
    /\ last.arg \in {NoneValue, UNSPECIFIED, DictValue(EmptyMap)}

\* a parent reached an optional child namespace with nothing supplied for it
EmptyOptionalChild(parent, n) ==
    /\ Done("validate")
    /\ parent = last.self
    /\ IsNamespace(heap[parent])
    /\ n \in DOMAIN heap[parent].ports
    /\ heap[parent].ports[n] \in last.ret.called
    /\ IsNamespace(heap[heap[parent].ports[n]])
    /\ ~heap[heap[parent].ports[n]].required
    /\ heap[heap[parent].ports[n]].validator = "None"
    /\ IsMappingOrEmpty(last.arg)
    /\ PopValue(GivenValues(last.arg), n) \in {NoneValue, UNSPECIFIED, DictValue(EmptyMap)}

\* C3: an optional namespace given empty values (None, {}, or UNSPECIFIED from
\* its parent), its validator accepting, returns (true, None) and calls
\* validate on none of its children, required or not.
C3_EmptyOptionalSucceeds ==
    /\ EmptyOptionalCall => last.ret = Return(TRUE, "None", {})
    /\ \A n \in {"a", "b"} :
          EmptyOptionalChild(1, n) =>
              \A m \in DOMAIN heap[heap[1].ports[n]].ports :
                  heap[heap[1].ports[n]].ports[m] \notin last.ret.called

\* C3 witness: the optional root has a required leaf and was given {}
C3_Witness ==
    /\ EmptyOptionalCall
    /\ last.arg = DictValue(EmptyMap)
    /\ "a" \in DOMAIN heap[last.self].ports
    /\ heap[heap[last.self].ports["a"]].required
    /\ Succeeded(last.ret)

\* C4: validate always ends by returning a (bool, message) pair, also when a
\* scalar is supplied under the name of a child namespace; it never raises.
C4_ValidateNeverRaises ==
    (Done("validate") /\ IsNamespace(heap[last.self]) /\ IsMappingOrEmpty(last.arg))
        => last.outcome = "return"

\* project as documented: recursion decided by the schema child
RECURSIVE ProjectBySchema(_, _, _)
ProjectBySchema(h, id, port_values) ==
    [name \in DOMAIN port_values \cap DOMAIN h[id].ports |->
        IF IsNamespace(h[h[id].ports[name]]) /\ port_values[name].kind = "dict"
        THEN DictValue(ProjectBySchema(h, h[id].ports[name], port_values[name].items))
        ELSE port_values[name]]

\* C7: project keeps exactly the declared keys and, where the schema child is
\* a namespace and the value a nested mapping, the child's projection of
\* it, so undeclared keys are dropped at every depth.
C7_ProjectRecurses ==
    Done("project") =>
        last.ret = DictValue(ProjectBySchema(heap, last.self, last.arg.items))

\* C7, top level only: the kept keys are the declared keys of values
C7_TopLevelKeys ==
    Done("project") =>
        DOMAIN last.ret.items = DOMAIN last.arg.items \cap DOMAIN heap[last.self].ports

(***************************************************************************)
(* Building a schema tree by dotted names: the root namespace (object 1)   *)
(* is PortNamespace(); namespaces are created by create_port_namespace,    *)
(* leaf ports are assigned, ports are looked up.                           *)
(***************************************************************************)
KeywordArguments ==
    {EmptyMap,
     [n \in {"valid_type"} |-> "int"],
     [n \in {"dynamic"} |-> TRUE]}

PathCall(name, kwargs) == [name |-> name, kwargs |-> kwargs]

Init ==
    /\ heap = <<PortNamespace_new("None", EmptyMap)>>
    /\ last = NoCall

\* root.create_port_namespace(name, **kwargs)
CreatePortNamespace(name, kwargs) ==
    LET r == create_port_namespace(heap, 1, name, kwargs)
    IN  /\ Len(r.heap) <= MaxObj
        /\ heap' = r.heap
        /\ last' = Called("create_port_namespace", 1, PathCall(name, kwargs),
                          heap, r.outcome, r.ret)

\* root.get_port(name)
GetPort(name) ==
    LET r == get_port(heap, 1, name)
    IN  /\ heap' = r.heap
        /\ last' = Called("get_port", 1, PathCall(name, EmptyMap), heap, r.outcome, r.ret)

\* namespace[key] = InputPort(key)
SetItem(id, key) ==
    /\ IsNamespace(heap[id])
    /\ Len(heap) < MaxObj
    /\ heap' = SetPort(Allocate(heap, ValueSpec_init("InputPort", key, "None", "None",
                                    required_override(TRUE, UNSPECIFIED), "None")),
                       id, key, NewId(heap))
    /\ last' = Called("__setitem__", id, PathCall(<<key>>, EmptyMap), heap, "return", NewId(heap))

Next ==
    \/ \E name \in DottedNames, kwargs \in KeywordArguments : CreatePortNamespace(name, kwargs)
    \/ \E name \in DottedNames : GetPort(name)
    \/ \E id \in 1..Len(heap), key \in Segments : SetItem(id, key)

Spec == Init /\ [][Next]_vars

(***************************************************************************)
(* Properties of get_port and create_port_namespace, checked under Spec.   *)
(***************************************************************************)
\* the node reached by looking the segments up one level at a time among
\* direct children; 0 when a segment is no child of the node reached so far
RECURSIVE Walk(_, _, _)
Walk(h, id, path) ==
    IF path = <<>> THEN id
    ELSE IF ~IsNamespace(h[id]) \/ Head(path) \notin DOMAIN h[id].ports THEN 0
         ELSE Walk(h, h[id].ports[Head(path)], Tail(path))

Prefix(path, k) == SubSeq(path, 1, k)
BareNamespace(name) == PortNamespace_new(name, EmptyMap)

CreateCall == Done("create_port_namespace")

\* C9: create_port_namespace is idempotent: a second call with the same
\* dotted name, whatever its schema arguments, returns the node the first
\* call returned and leaves every node as it is; namespaces created on the
\* way carry no schema arguments; the call raises whenever a segment names
\* an existing port that is no namespace.
C9_CreateIdempotent ==
    CreateCall =>
        LET name == last.arg.name
            before == Walk(last.pre, 1, name)
        IN  /\ last.outcome = "return" =>
                /\ Walk(heap, 1, name) = last.ret
                /\ IsNamespace(heap[last.ret])
                /\ \A again \in KeywordArguments :
                      create_port_namespace(heap, 1, name, again) = Returned(heap, last.ret)
            /\ (last.outcome = "return" /\ before # 0) =>
                /\ heap = last.pre
                /\ last.ret = before
            /\ \A k \in 1..(Len(name) - 1) :
                  (Walk(last.pre, 1, Prefix(name, k)) = 0
                        /\ Walk(heap, 1, Prefix(name, k)) # 0) =>
                      [heap[Walk(heap, 1, Prefix(name, k))] EXCEPT !.ports = EmptyMap]
                          = BareNamespace(name[k])
            /\ (\E k \in 1..Len(name) :
                    /\ Walk(last.pre, 1, Prefix(name, k)) # 0
                    /\ ~IsNamespace(last.pre[Walk(last.pre, 1, Prefix(name, k))]))
                  => last.outcome = "raise"

\* C9 witness: a repeated call for a two-segment name, given schema
\* arguments, returned the existing namespace and changed nothing
C9_Witness ==
    /\ CreateCall
    /\ last.outcome = "return"
    /\ Len(last.arg.name) = 2
    /\ last.arg.kwargs # EmptyMap
    /\ heap = last.pre
    /\ heap[last.ret].valid_type = "None"
    /\ heap[last.ret].dynamic = FALSE

\* C9 witness of the raising case: the first segment names a leaf port
C9_WitnessRaise ==
    /\ CreateCall
    /\ last.outcome = "raise"
    /\ Walk(last.pre, 1, Prefix(last.arg.name, 1)) # 0
    /\ ~IsNamespace(last.pre[Walk(last.pre, 1, Prefix(last.arg.name, 1))])

GetPortCall == Done("get_port") /\ ~IsEmptyName(last.arg.name)

GetPortIsWalk ==
    LET found == Walk(last.pre, 1, last.arg.name)
    IN  IF found # 0
        THEN last.outcome = "return" /\ last.ret = found
        ELSE last.outcome = "raise"

\* C10 (as claimed): for every non-empty dotted name get_port returns the
\* node reached by single-level lookups, and raises when a lookup fails.
C10_GetPortIsWalk == GetPortCall => GetPortIsWalk

EndsWithSeparator(name) == name[Len(name)] = ""

\* C10 (amended): for every non-empty dotted name that does not end with the
\* separator get_port returns the node reached by single-level lookups and
\* raises when a lookup fails; a name that ends with the separator always
\* raises, also when a child with the empty name exists there.
C10_GetPortAmended ==
    GetPortCall =>
        IF EndsWithSeparator(last.arg.name)
        THEN last.outcome = "raise"
        ELSE GetPortIsWalk

\* C10 witness: a port two levels down was returned
C10_Witness ==
    /\ GetPortCall
    /\ Len(last.arg.name) = 2
    /\ last.outcome = "return"
    /\ last.ret = Walk(heap, 1, last.arg.name)

\* C10 witness of the amended case: the name ends with the separator, the
\* child with the empty name exists, and get_port raised
C10_WitnessSeparator ==
    /\ GetPortCall
    /\ EndsWithSeparator(last.arg.name)
    /\ Walk(last.pre, 1, last.arg.name) # 0
    /\ last.outcome = "raise"

(***************************************************************************)
(* Construction, property assignment and absorption: a call about to be    *)
(* made on built namespaces.  Object 1 is the absorbing namespace, object  *)
(* 2 the namespace to absorb; the other may hold a leaf "a" and a child    *)
(* namespace "b" with a leaf of its own, the absorbing one a leaf "a".     *)
(***************************************************************************)
OptionValues(key) ==
    CASE key = "default" -> {UNSPECIFIED, IntValue}
      [] key = "dynamic" -> BOOLEAN
      [] key = "help" -> {"None", "H"}
      [] key = "required" -> BOOLEAN
      [] key = "valid_type" -> {"None", "int"}
      [] key = "validator" -> {"None", "ns_accept"}
      [] key = "name" -> {"n"}

\* the keyword dictionaries with at most n of the keys
RECURSIVE KeywordMaps(_, _)
KeywordMaps(keys, n) ==
    IF n = 0 THEN {EmptyMap}
    ELSE LET fewer == KeywordMaps(keys, n - 1)
         IN  fewer \cup UNION {
                {Merge(f, [x \in {k} |-> v]) :
                    f \in {g \in fewer : k \notin DOMAIN g}, v \in OptionValues(k)} :
                k \in keys}

AbsorbOptions == KeywordMaps(MutableProperties \cup {"name"}, MaxOptions)
ConstructorArguments == KeywordMaps(MutableProperties, Cardinality(MutableProperties))

ChildNames == {"a", "b"}
Excludes == SUBSET ChildNames
Includes == {NoInclude} \cup {Include(names) : names \in SUBSET ChildNames}

AbsorbCall(exclude, include, options) ==
    [exclude |-> exclude, include |-> include, options |-> options]

\* namespace[key] = a new leaf port
WithLeaf(h, id, key, cls) ==
    SetPort(Allocate(h, ValueSpec_init(cls, key, "None", "None", TRUE, "None")),
            id, key, NewId(h))

\* namespace.create_port_namespace(key)[inner] = a new leaf port
WithNamespace(h, id, key, inner) ==
    LET made == create_port_namespace(h, id, <<key>>, EmptyMap)
    IN  WithLeaf(made.heap, made.ret, inner, "InputPort")

AbsorbingNamespaces ==
    {PortNamespace_new("None", EmptyMap),
     PortNamespace_init("None", "H", FALSE, "ns_accept", "int", IntValue, TRUE)}
AbsorbedNamespaces ==
    {PortNamespace_init("None", help, required, validator, valid_type, default, dynamic) :
        help \in {"None", "H"}, required \in BOOLEAN, validator \in {"None", "ns_accept"},
        valid_type \in {"None", "int"}, default \in {UNSPECIFIED, IntValue},
        dynamic \in BOOLEAN}
\* the other namespace: its four plain properties all as constructed by
\* default, or all set
AbsorbedChoice ==
    {o \in AbsorbedNamespaces :
        (o.help = "H") = (o.validator = "ns_accept")
        /\ (o.help = "H") = (~o.required)
        /\ (o.help = "H") = (o.default = IntValue)}

AbsorbHeaps ==
    {LET h0 == <<self, other>>
         h1 == IF hasA THEN WithLeaf(h0, 2, "a", "InputPort") ELSE h0
         h2 == IF hasB THEN WithNamespace(h1, 2, "b", "a") ELSE h1
     IN  IF ownA THEN WithLeaf(h2, 1, "a", "OutputPort") ELSE h2 :
        self \in AbsorbingNamespaces, other \in AbsorbedChoice,
        hasA \in BOOLEAN, hasB \in BOOLEAN, ownA \in BOOLEAN}

InitAbsorb ==
    \/ /\ heap \in AbsorbHeaps
       /\ \E exclude \in Excludes, include \in Includes, options \in AbsorbOptions :
            last = Called("absorb", 1, AbsorbCall(exclude, include, options),
                          heap, "pending", "None")
    \/ /\ heap \in AbsorbHeaps
       /\ \E id \in {1, 2}, attr \in MutableProperties :
            \E value \in OptionValues(attr) :
                last = Called("setattr", id, [attr |-> attr, value |-> value],
                              heap, "pending", "None")
    \/ /\ heap = <<>>
       /\ \E kwargs \in ConstructorArguments :
            last = Called("PortNamespace", 0, kwargs, heap, "pending", "None")

\* self.absorb(other, exclude, include, namespace_options)
Absorb ==
    /\ Pending("absorb")
    /\ LET r == absorb(heap, last.self, 2, last.arg.exclude, last.arg.include,
                       last.arg.options)
       IN  /\ heap' = r.heap
           /\ last' = [last EXCEPT !.outcome = r.outcome, !.ret = r.ret]

\* namespace.attr = value
SetAttribute ==
    /\ Pending("setattr")
    /\ heap' = [heap EXCEPT ![last.self] = SetAttr(@, last.arg.attr, last.arg.value)]
    /\ last' = [last EXCEPT !.outcome = "return"]

\* PortNamespace(**kwargs)
Construct ==
    /\ Pending("PortNamespace")
    /\ heap' = Allocate(heap, PortNamespace_new("None", last.arg))
    /\ last' = [last EXCEPT !.outcome = "return", !.ret = NewId(heap)]

NextAbsorb == Absorb \/ SetAttribute \/ Construct

SpecAbsorb == InitAbsorb /\ [][NextAbsorb]_vars

(***************************************************************************)
(* Properties of absorb and of the valid_type rule, checked under          *)
(* SpecAbsorb.                                                             *)
(***************************************************************************)
\* the objects of the tree below id, id included
RECURSIVE Subtree(_, _)
Subtree(h, id) ==
    {id} \cup UNION {Subtree(h, h[id].ports[n]) : n \in DOMAIN h[id].ports}

AbsorbBothFilters ==
    /\ Done("absorb")
    /\ last.arg.exclude # {}
    /\ last.arg.include.given
    /\ last.arg.include.names # {}

\* C5: absorb given a non-empty exclude and a non-empty include raises, and
\* leaves the absorbing namespace as it was: its properties and its
\* children are those from before the call.
C5_AbsorbBothRaisesUnchanged ==
    AbsorbBothFilters =>
        /\ last.outcome = "raise"
        /\ \A id \in Subtree(last.pre, last.self) : heap[id] = last.pre[id]

\* C5, the part that holds: the call raises and no child differs
C5_AbsorbBothRaisesChildrenKept ==
    AbsorbBothFilters =>
        /\ last.outcome = "raise"
        /\ heap[last.self].ports = last.pre[last.self].ports
        /\ \A id \in Subtree(last.pre, last.self) \ {last.self} : heap[id] = last.pre[id]

\* C6: after absorb returns, each mutable property of the absorbing
\* namespace is the override in namespace_options when there is one and
\* the other namespace's value otherwise, dynamic and valid_type included.
C6_AbsorbedProperties ==
    (Done("absorb") /\ last.outcome = "return") =>
        \A attr \in MutableProperties :
            GetAttr(heap[last.self], attr) =
                IF attr \in DOMAIN last.arg.options
                THEN last.arg.options[attr]
                ELSE GetAttr(last.pre[2], attr)

\* C6, the part that holds: every property but dynamic
C6_AbsorbedPropertiesButDynamic ==
    (Done("absorb") /\ last.outcome = "return") =>
        \A attr \in MutableProperties \ {"dynamic"} :
            GetAttr(heap[last.self], attr) =
                IF attr \in DOMAIN last.arg.options
                THEN last.arg.options[attr]
                ELSE GetAttr(last.pre[2], attr)

DynamicFollowsValidType(o) == o.dynamic = (o.valid_type # "None")

\* C8: after an operation that sets the valid_type of a namespace (the
\* constructor or create_port_namespace given valid_type, an assignment to
\* the property, absorb), dynamic is true exactly when valid_type is set.
C8_DynamicFollowsValidType ==
    /\ (Done("PortNamespace") /\ "valid_type" \in DOMAIN last.arg)
          => DynamicFollowsValidType(heap[last.ret])
    /\ (Done("create_port_namespace") /\ last.outcome = "return"
            /\ "valid_type" \in DOMAIN last.arg.kwargs /\ heap # last.pre)
          => DynamicFollowsValidType(heap[last.ret])
    /\ (Done("setattr") /\ last.arg.attr = "valid_type")
          => DynamicFollowsValidType(heap[last.self])
    /\ (Done("absorb") /\ last.outcome = "return")
          => DynamicFollowsValidType(heap[last.self])

\* C8, the part that holds: the property setter and absorb keep the rule
C8_SetterKeepsRule ==
    /\ (Done("setattr") /\ last.arg.attr = "valid_type")
          => DynamicFollowsValidType(heap[last.self])
    /\ (Done("absorb") /\ last.outcome = "return")
          => DynamicFollowsValidType(heap[last.self])

(***************************************************************************)
(* Absorption followed by mutations of the two trees.  Object 1 absorbs    *)
(* object 2; afterwards ports of either tree are assigned properties,      *)
(* set and deleted.                                                        *)
(***************************************************************************)
IndependenceHeaps ==
    {h \in AbsorbHeaps :
        /\ [h[1] EXCEPT !.ports = EmptyMap] = PortNamespace_new("None", EmptyMap)
        /\ h[2].help = "H" /\ h[2].valid_type = "None" /\ ~h[2].dynamic}

InitIndependence ==
    /\ heap \in IndependenceHeaps
    /\ \E exclude \in Excludes, include \in Includes :
         last = Called("absorb", 1, AbsorbCall(exclude, include, EmptyMap),
                       heap, "pending", "None")

\* the number of mutations made since absorb returned
Mutations == IF last.op = "absorb" THEN 0 ELSE last.arg.step

\* the ports of the two trees a later statement can reach
Reachable == Subtree(heap, 1) \cup Subtree(heap, 2)

CanMutate ==
    /\ ~(last.op = "absorb" /\ last.outcome # "return")
    /\ Mutations < MaxMutations

Mutation(op, id, key) == [op |-> op, key |-> key, step |-> Mutations + 1]

\* port.help = "M", or namespace.valid_type = str
MutateSetAttr(id, attr) ==
    /\ CanMutate
    /\ id \in Reachable
    /\ attr = "valid_type" => IsNamespace(heap[id])
    /\ heap' = [heap EXCEPT ![id] =
                    SetAttr(@, attr, IF attr = "help" THEN "M" ELSE "str")]
    /\ last' = Called("setattr", id, Mutation("setattr", id, attr), heap, "return", "None")

\* namespace[key] = OutputPort(key): adds or replaces a port
MutateSetItem(id, key) ==
    /\ CanMutate
    /\ id \in Reachable
    /\ IsNamespace(heap[id])
    /\ heap' = WithLeaf(heap, id, key, "OutputPort")
    /\ last' = Called("setitem", id, Mutation("setitem", id, key), heap, "return", "None")

\* del namespace[key]
MutateDelItem(id, key) ==
    /\ CanMutate
    /\ id \in Reachable
    /\ IsNamespace(heap[id])
    /\ key \in DOMAIN heap[id].ports
    /\ heap' = DelPort(heap, id, key)
    /\ last' = Called("delitem", id, Mutation("delitem", id, key), heap, "return", "None")

NextIndependence ==
    \/ Absorb
    \/ \E id \in 1..Len(heap), attr \in {"help", "valid_type"} : MutateSetAttr(id, attr)
    \/ \E id \in 1..Len(heap), key \in {"a", "c"} : MutateSetItem(id, key)
    \/ \E id \in 1..Len(heap), key \in {"a", "b", "c"} : MutateDelItem(id, key)

SpecIndependence == InitIndependence /\ [][NextIndependence]_vars

(***************************************************************************)
(* Independence of the absorbed copies, checked under SpecIndependence.    *)
(***************************************************************************)
\* the tree below id as a value: each port's attributes and its children
\* by name, whatever the identities of the objects
RECURSIVE TreeValue(_, _)
TreeValue(h, id) ==
    [port |-> [h[id] EXCEPT !.ports = EmptyMap],
     children |-> [n \in DOMAIN h[id].ports |-> TreeValue(h, h[id].ports[n])]]

Range(seq) == {seq[i] : i \in 1..Len(seq)}

Mutated == last.op \in {"setattr", "setitem", "delitem"}

\* absorb returned: other is as before, and so is every child of self
\* whose name was not absorbed
AbsorbFrame ==
    (Done("absorb") /\ last.outcome = "return") =>
        /\ TreeValue(heap, 2) = TreeValue(last.pre, 2)
        /\ \A n \in DOMAIN last.pre[1].ports \ Range(last.ret) :
            /\ n \in DOMAIN heap[1].ports
            /\ heap[1].ports[n] = last.pre[1].ports[n]
            /\ TreeValue(heap, heap[1].ports[n]) = TreeValue(last.pre, last.pre[1].ports[n])

\* C11: absorb leaves other and the children of self it did not absorb
\* unchanged; after it, a mutation of a port in the tree of self (an
\* absorbed child or a port below one included) leaves the tree of other
\* unchanged, and a mutation of a port in the tree of other leaves the tree
\* of self, its absorbed children included, unchanged.
C11_AbsorbedIndependent ==
    /\ AbsorbFrame
    /\ (Mutated /\ last.self \in Subtree(last.pre, 1))
          => TreeValue(heap, 2) = TreeValue(last.pre, 2)
    /\ (Mutated /\ last.self \in Subtree(last.pre, 2))
          => TreeValue(heap, 1) = TreeValue(last.pre, 1)

\* C11 witness: the namespace "b" of other was absorbed with its port, and
\* the port was then deleted from the copy in self; other still has it
C11_Witness ==
    /\ last.op = "delitem"
    /\ "b" \in DOMAIN last.pre[1].ports
    /\ last.self = last.pre[1].ports["b"]
    /\ "b" \in DOMAIN heap[2].ports
    /\ "a" \in DOMAIN heap[heap[2].ports["b"]].ports
    /\ "a" \notin DOMAIN heap[last.self].ports

\* C11 witness: a port of other was replaced after it had been absorbed,
\* and self holds the absorbed copy
C11_WitnessOther ==
    /\ last.op = "setitem"
    /\ last.self = 2
    /\ last.arg.key = "a"
    /\ "a" \in DOMAIN last.pre[2].ports
    /\ "a" \in DOMAIN heap[1].ports
    /\ heap[heap[1].ports["a"]].cls = "InputPort"

(***************************************************************************)
(* Communicators (src/plumpy/communications.py).  A kiwipy communicator,   *)
(* a LoopCommunicator around a communicator and a converted callback are   *)
(* objects of the heap.  An event loop is named; IOLoop.current() is the   *)
(* loop current where the call is made.                                    *)
(***************************************************************************)
Loops == {"loop1", "loop2"}

\* a kiwipy communicator: its rpc, task and broadcast subscribers
Communicator_new ==
    [cls |-> "Communicator", rpc |-> EmptyMap, task |-> {}, broadcast |-> {}]

\* loop or ioloop.IOLoop.current()
LoopOrCurrent(loop, current) == IF loop # "None" THEN loop ELSE current

\* LoopCommunicator(communicator, loop)
LoopCommunicator_init(communicator, loop, current) ==
    [cls |-> "LoopCommunicator", communicator |-> communicator,
     loop |-> LoopOrCurrent(loop, current), subscribers |-> EmptyMap]

IsLoopCommunicator(o) == o.cls = "LoopCommunicator"

\* wrap_communicator(communicator, loop): communicator.loop() is loop
wrap_communicator(h, communicator, loop, current) ==
    IF IsLoopCommunicator(h[communicator]) /\ h[communicator].loop = loop
    THEN Returned(h, communicator)
    ELSE Returned(Allocate(h, LoopCommunicator_init(communicator, loop, current)),
                  NewId(h))

InitWrap ==
    /\ heap = <<Communicator_new>>
    /\ last = NoCall

\* wrap_communicator(communicator, loop) called where current is the
\* current loop
WrapCommunicator(communicator, loop, current) ==
    /\ Len(heap) <= MaxWrappers
    /\ LET r == wrap_communicator(heap, communicator, loop, current)
       IN  /\ heap' = r.heap
           /\ last' = Called("wrap_communicator", 0,
                             [communicator |-> communicator, loop |-> loop,
                              current |-> current],
                             heap, r.outcome, r.ret)

NextWrap ==
    \E communicator \in 1..Len(heap), loop \in Loops \cup {"None"}, current \in Loops :
        WrapCommunicator(communicator, loop, current)

SpecWrap == InitWrap /\ [][NextWrap]_vars

(***************************************************************************)
(* Properties of wrap_communicator, checked under SpecWrap.                *)
(***************************************************************************)
\* the communicator given is a LoopCommunicator on the loop the call
\* resolves to
WrapOfEquivalent ==
    /\ Done("wrap_communicator")
    /\ IsLoopCommunicator(last.pre[last.arg.communicator])
    /\ last.pre[last.arg.communicator].loop =
            LoopOrCurrent(last.arg.loop, last.arg.current)

\* C13: wrap_communicator given a LoopCommunicator that schedules on the
\* loop the call resolves to (the loop given, or the current loop when
\* none is given) returns that communicator and makes no new wrapper; so
\* no LoopCommunicator wraps a LoopCommunicator of its own loop.
C13_WrapReturnsEquivalent ==
    /\ WrapOfEquivalent => (last.ret = last.arg.communicator /\ heap = last.pre)
    /\ \A id \in 1..Len(heap) :
        (IsLoopCommunicator(heap[id]) /\ IsLoopCommunicator(heap[heap[id].communicator]))
            => heap[id].loop # heap[heap[id].communicator].loop

\* C13, the part that holds: the same when the loop is given
C13_WrapGivenLoop ==
    (WrapOfEquivalent /\ last.arg.loop # "None") =>
        (last.ret = last.arg.communicator /\ heap = last.pre)

(***************************************************************************)
(* Task and broadcast subscribers of a LoopCommunicator.  Object 1 is the  *)
(* wrapped kiwipy communicator, object 2 the LoopCommunicator around it.   *)
(***************************************************************************)
Subscribers == {"s1", "s2"}

\* convert_to_comm(callback, loop): a new function object each call
convert_to_comm(h, callback, loop, current) ==
    [heap |-> Allocate(h, [cls |-> "converted", callback |-> callback,
                           loop |-> LoopOrCurrent(loop, current)]),
     id |-> NewId(h)]

\* self._subscribers[subscriber] = converted
SetSubscriber(h, self, subscriber, converted) ==
    [h EXCEPT ![self].subscribers =
        [x \in DOMAIN h[self].subscribers \cup {subscriber} |->
            IF x = subscriber THEN converted ELSE h[self].subscribers[x]]]

\* self._subscribers.pop(subscriber), the key being present
PopSubscriber(h, self, subscriber) ==
    [h EXCEPT ![self].subscribers =
        [x \in DOMAIN h[self].subscribers \ {subscriber} |-> h[self].subscribers[x]]]

\* the wrapped communicator's remove_task_subscriber(converted); unknown
\* is what it does with a callback it does not hold ("return" or "raise")
Communicator_remove_task_subscriber(h, c, converted, unknown) ==
    IF converted \in h[c].task
    THEN Returned([h EXCEPT ![c].task = @ \ {converted}], "None")
    ELSE IF unknown = "raise" THEN Raised(h, "ValueError") ELSE Returned(h, "None")

add_task_subscriber(h, self, subscriber) ==
    LET c == convert_to_comm(h, subscriber, h[self].loop, h[self].loop)
        added == [c.heap EXCEPT ![h[self].communicator].task = @ \cup {c.id}]
    IN  Returned(SetSubscriber(added, self, subscriber, c.id), "None")

remove_task_subscriber(h, self, subscriber, unknown) ==
    IF subscriber \notin DOMAIN h[self].subscribers THEN Raised(h, "KeyError")
    ELSE Communicator_remove_task_subscriber(
            PopSubscriber(h, self, subscriber), h[self].communicator,
            h[self].subscribers[subscriber], unknown)

add_broadcast_subscriber(h, self, subscriber) ==
    LET c == convert_to_comm(h, subscriber, h[self].loop, h[self].loop)
        added == [c.heap EXCEPT ![h[self].communicator].broadcast = @ \cup {c.id}]
    IN  Returned(SetSubscriber(added, self, subscriber, c.id), "None")

\* calls the wrapped communicator's remove_task_subscriber
remove_broadcast_subscriber(h, self, subscriber, unknown) ==
    IF subscriber \notin DOMAIN h[self].subscribers THEN Raised(h, "KeyError")
    ELSE Communicator_remove_task_subscriber(
            PopSubscriber(h, self, subscriber), h[self].communicator,
            h[self].subscribers[subscriber], unknown)

InitSubscribers ==
    /\ heap = <<Communicator_new, LoopCommunicator_init(1, "loop1", "loop1")>>
    /\ last = NoCall

SubscriberCall(op, subscriber, r) ==
    /\ heap' = r.heap
    /\ last' = Called(op, 2, subscriber, heap, r.outcome, r.ret)

AddTaskSubscriber(subscriber) ==
    /\ Len(heap) < 2 + MaxConverted
    /\ SubscriberCall("add_task_subscriber", subscriber,
                      add_task_subscriber(heap, 2, subscriber))

RemoveTaskSubscriber(subscriber, unknown) ==
    /\ unknown \in {"return", "raise"}
    /\ SubscriberCall("remove_task_subscriber", subscriber,
                      remove_task_subscriber(heap, 2, subscriber, unknown))

AddBroadcastSubscriber(subscriber) ==
    /\ Len(heap) < 2 + MaxConverted
    /\ SubscriberCall("add_broadcast_subscriber", subscriber,
                      add_broadcast_subscriber(heap, 2, subscriber))

RemoveBroadcastSubscriber(subscriber, unknown) ==
    /\ unknown \in {"return", "raise"}
    /\ SubscriberCall("remove_broadcast_subscriber", subscriber,
                      remove_broadcast_subscriber(heap, 2, subscriber, unknown))

NextSubscribers ==
    \/ \E subscriber \in Subscribers : AddTaskSubscriber(subscriber)
    \/ \E subscriber \in Subscribers, unknown \in {"return", "raise"} :
            RemoveTaskSubscriber(subscriber, unknown)
    \/ \E subscriber \in Subscribers : AddBroadcastSubscriber(subscriber)
    \/ \E subscriber \in Subscribers, unknown \in {"return", "raise"} :
            RemoveBroadcastSubscriber(subscriber, unknown)

SpecSubscribers == InitSubscribers /\ [][NextSubscribers]_vars

(***************************************************************************)
(* Properties of the subscriber calls, checked under SpecSubscribers.      *)
(***************************************************************************)
\* the wrapped communicator holds a converted callback of subscriber
RegisteredTask(h, subscriber) ==
    \E c \in h[1].task : h[c].callback = subscriber
RegisteredBroadcast(h, subscriber) ==
    \E c \in h[1].broadcast : h[c].callback = subscriber

SubscriberOps ==
    {"add_task_subscriber", "remove_task_subscriber",
     "add_broadcast_subscriber", "remove_broadcast_subscriber"}

\* registered after a call: added by the add of the kind, removed by the
\* remove of the kind, otherwise as before the call
ExpectedAfter(op, add, remove, subscriber, before) ==
    IF op = add /\ last.arg = subscriber THEN TRUE
    ELSE IF op = remove /\ last.arg = subscriber THEN FALSE
    ELSE before

\* C14: after every add or remove call on the LoopCommunicator, a
\* subscriber is registered with the wrapped communicator as a broadcast
\* subscriber exactly when its last broadcast call was an add, and as a
\* task subscriber exactly when its last task call was an add: an add
\* registers, the remove of the same kind unregisters, and every other
\* call leaves the registration as it was.
C14_RegisteredIffAdded ==
    last.op \in SubscriberOps =>
        \A subscriber \in Subscribers :
            /\ RegisteredTask(heap, subscriber) =
                 ExpectedAfter(last.op, "add_task_subscriber", "remove_task_subscriber",
                               subscriber, RegisteredTask(last.pre, subscriber))
            /\ RegisteredBroadcast(heap, subscriber) =
                 ExpectedAfter(last.op, "add_broadcast_subscriber",
                               "remove_broadcast_subscriber",
                               subscriber, RegisteredBroadcast(last.pre, subscriber))

\* C14, a part that holds: an add call registers the subscriber under its
\* kind and leaves every other registration as it was
C14_AddRegisters ==
    last.op \in {"add_task_subscriber", "add_broadcast_subscriber"} =>
        \A subscriber \in Subscribers :
            /\ RegisteredTask(heap, subscriber) =
                 ExpectedAfter(last.op, "add_task_subscriber", "remove_task_subscriber",
                               subscriber, RegisteredTask(last.pre, subscriber))
            /\ RegisteredBroadcast(heap, subscriber) =
                 ExpectedAfter(last.op, "add_broadcast_subscriber",
                               "remove_broadcast_subscriber",
                               subscriber, RegisteredBroadcast(last.pre, subscriber))

(***************************************************************************)
(* RPC through a LoopCommunicator.  Object 1 is the wrapped communicator,  *)
(* object 2 the LoopCommunicator, object 3 the event loop of the wrapper.  *)
(* A future holds its outcome, the callbacks the loop is to run once it    *)
(* is done (loop.add_future) and the futures chained to it.  A request is  *)
(* the wrapped communicator's record of an RPC message: the sender's       *)
(* future and, once delivered, the future the subscriber call gave back.   *)
(***************************************************************************)
NoOutcome == [kind |-> "none", plain |-> "None", ref |-> 0]
Result(value) == [kind |-> "result", plain |-> value, ref |-> 0]
Exception(exc) == [kind |-> "exception", plain |-> exc, ref |-> 0]
FutureResult(f) == [kind |-> "future", plain |-> "None", ref |-> f]

Future_new == [cls |-> "Future", outcome |-> NoOutcome, done_callbacks |-> <<>>,
               chained |-> {}]
IOLoop_new(name) == [cls |-> "IOLoop", name |-> name, callbacks |-> <<>>,
                     calls |-> <<>>]

IsDone(h, f) == h[f].outcome.kind # "none"
\* concurrent.is_future(result) / isinstance(result, kiwipy.Future)
is_future(outcome) == outcome.kind = "future"

\* the loop object of the given name
LoopOf(h, name) == CHOOSE id \in 1..Len(h) : h[id].cls = "IOLoop" /\ h[id].name = name

\* loop.add_callback(callback)
add_callback(h, loop, callback) ==
    [h EXCEPT ![loop].callbacks = Append(@, callback)]

Callback(fn, loop, task, kiwi, callback, msg) ==
    [fn |-> fn, loop |-> loop, task |-> task, kiwi |-> kiwi, callback |-> callback,
     msg |-> msg]

\* the callbacks of seq scheduled on their loops, in order
RECURSIVE ScheduleAll(_, _)
ScheduleAll(h, seq) ==
    IF seq = <<>> THEN h
    ELSE ScheduleAll(add_callback(h, Head(seq).loop, Head(seq)), Tail(seq))

\* future.set_result / set_exception: the outcome is stored and the
\* callbacks given to loop.add_future are scheduled on their loop
SetOutcome(h, f, outcome) ==
    ScheduleAll([h EXCEPT ![f].outcome = outcome, ![f].done_callbacks = <<>>],
                h[f].done_callbacks)

\* loop.add_future(future, callback)
add_future(h, loop, f, callback) ==
    IF IsDone(h, f) THEN add_callback(h, loop, callback)
    ELSE [h EXCEPT ![f].done_callbacks = Append(@, callback)]

\* futures.chain(a, b): b takes the outcome of a once a is done
chain(h, a, b) == [h EXCEPT ![a].chained = @ \cup {b}]

\* futures.create_task(fn, loop): a future for the outcome of calling fn
\* on the loop
create_task(h, callback, msg, loop) ==
    LET task == NewId(h)
    IN  [heap |-> add_callback(Allocate(h, Future_new), loop,
                               Callback("run_task", loop, task, 0, callback, msg)),
         id |-> task]

\* plum_to_kiwi_future(plum_future)
plum_to_kiwi_future(h, plum_future) ==
    LET kiwi_future == NewId(h)
    IN  [heap |-> chain(Allocate(h, Future_new), plum_future, kiwi_future),
         id |-> kiwi_future]

\* task_done that lets the exception of the task escape
task_done_uncaptured(h, task, kiwi_future) ==
    IF h[task].outcome.kind = "exception" THEN h
    ELSE IF is_future(h[task].outcome)
    THEN LET k == plum_to_kiwi_future(h, h[task].outcome.ref)
         IN  SetOutcome(k.heap, kiwi_future, FutureResult(k.id))
    ELSE SetOutcome(h, kiwi_future, h[task].outcome)

\* task_done(task) inside converted, with kiwi_future of its closure
task_done(h, task, kiwi_future) ==
    IF h[task].outcome.kind = "exception"
    THEN SetOutcome(h, kiwi_future, h[task].outcome)
    ELSE IF is_future(h[task].outcome)
    THEN LET k == plum_to_kiwi_future(h, h[task].outcome.ref)
         IN  SetOutcome(k.heap, kiwi_future, FutureResult(k.id))
    ELSE SetOutcome(h, kiwi_future, h[task].outcome)

\* converted(communicator, msg): the function convert_to_comm returns
converted(h, cv, communicator, msg) ==
    LET kiwi_future == NewId(h)
        loop == LoopOf(h, h[cv].loop)
        t == create_task(Allocate(h, Future_new), h[cv].callback, msg, loop)
    IN  [heap |-> add_future(t.heap, loop, t.id,
                             Callback("task_done", loop, t.id, kiwi_future,
                                      h[cv].callback, msg)),
         id |-> kiwi_future]

\* LoopCommunicator.add_rpc_subscriber(subscriber, identifier)
add_rpc_subscriber(h, self, subscriber, identifier) ==
    LET c == convert_to_comm(h, subscriber, h[self].loop, h[self].loop)
    IN  [c.heap EXCEPT ![h[self].communicator].rpc =
            Merge([x \in {identifier} |-> c.id], @)]

\* LoopCommunicator.rpc_send(recipient_id, msg): the wrapped communicator
\* takes the message and hands back a future
rpc_send(h, self, recipient_id, msg) ==
    LET future == NewId(h)
        request == [cls |-> "Request", communicator |-> h[self].communicator,
                    recipient |-> recipient_id, msg |-> msg, future |-> future,
                    reply |-> 0]
    IN  [heap |-> Allocate(Allocate(h, Future_new), request), id |-> future]

RpcSubscribers == {"returns_response", "raises_error", "returns_future"}
Identifiers == {"receiver"}
Messages == 1..MaxMessages

\* callback(communicator, msg): what the subscriber does when called
CallSubscriber(h, callback, msg) ==
    CASE callback = "returns_response" -> [heap |-> h, outcome |-> Result("response")]
      [] callback = "raises_error" -> [heap |-> h, outcome |-> Exception("RuntimeError")]
      [] callback = "returns_future" ->
            [heap |-> Allocate(h, Future_new), outcome |-> FutureResult(NewId(h))]

\* the callback create_task scheduled: the subscriber is called on the
\* loop and the task future takes the outcome of the call
run_task(h, cb) ==
    LET r == CallSubscriber(h, cb.callback, cb.msg)
        called == [r.heap EXCEPT ![cb.loop].calls =
                      Append(@, [callback |-> cb.callback, msg |-> cb.msg,
                                 outcome |-> r.outcome])]
    IN  SetOutcome(called, cb.task, r.outcome)

InitRpc ==
    /\ heap = <<Communicator_new, LoopCommunicator_init(1, "loop1", "loop1"),
                IOLoop_new("loop1")>>
    /\ last = NoCall

Step(op, arg) == Called(op, 2, arg, <<>>, "return", "None")

IsRequest(id) == heap[id].cls = "Request"
Requests == {id \in 1..Len(heap) : IsRequest(id)}

AddRpcSubscriber(subscriber, identifier) ==
    /\ identifier \notin DOMAIN heap[1].rpc
    /\ heap' = add_rpc_subscriber(heap, 2, subscriber, identifier)
    /\ last' = Step("add_rpc_subscriber", 0)

\* rpc_send(recipient_id, msg) to a registered identifier
RpcSend(recipient_id, msg) ==
    /\ recipient_id \in DOMAIN heap[1].rpc
    /\ msg = Cardinality(Requests) + 1
    /\ heap' = rpc_send(heap, 2, recipient_id, msg).heap
    /\ last' = Step("rpc_send", msg)

\* the wrapped communicator calls the subscriber registered for the
\* recipient and keeps the future it gives back
Deliver(req) ==
    /\ IsRequest(req)
    /\ heap[req].reply = 0
    /\ LET r == converted(heap, heap[1].rpc[heap[req].recipient], 1, heap[req].msg)
       IN  heap' = [r.heap EXCEPT ![req].reply = r.id]
    /\ last' = Step("deliver", heap[req].msg)

\* the loop runs its next callback
RunTask ==
    /\ heap[3].callbacks # <<>>
    /\ Head(heap[3].callbacks).fn = "run_task"
    /\ heap' = run_task([heap EXCEPT ![3].callbacks = Tail(@)], Head(heap[3].callbacks))
    /\ last' = Step("run_task", Head(heap[3].callbacks).msg)

TaskDone ==
    /\ heap[3].callbacks # <<>>
    /\ Head(heap[3].callbacks).fn = "task_done"
    /\ LET cb == Head(heap[3].callbacks)
       IN  heap' = task_done([heap EXCEPT ![3].callbacks = Tail(@)], cb.task, cb.kiwi)
    /\ last' = Step("task_done", Head(heap[3].callbacks).msg)

IsFuture(id) == heap[id].cls = "Future"

\* the callback futures.chain added to a: b takes the outcome of a
CopyChained(a, b) ==
    /\ IsFuture(a)
    /\ IsDone(heap, a)
    /\ b \in heap[a].chained
    /\ heap' = SetOutcome([heap EXCEPT ![a].chained = @ \ {b}], b, heap[a].outcome)
    /\ last' = Step("chain", a)

\* the wrapped communicator answers the sender: with the outcome of the
\* future the subscriber call gave back, following a future that resolved
\* to a future
Respond(req) ==
    /\ IsRequest(req)
    /\ heap[req].reply # 0
    /\ IsDone(heap, heap[req].reply)
    /\ ~IsDone(heap, heap[req].future)
    /\ LET outcome == heap[heap[req].reply].outcome
       IN  heap' = IF is_future(outcome)
                   THEN [heap EXCEPT ![req].reply = outcome.ref]
                   ELSE SetOutcome(heap, heap[req].future, outcome)
    /\ last' = Step("respond", heap[req].msg)

\* the futures subscribers have returned
ReturnedFutures ==
    {heap[3].calls[i].outcome.ref :
        i \in {j \in 1..Len(heap[3].calls) : is_future(heap[3].calls[j].outcome)}}

\* the owner of a future a subscriber returned resolves it
ResolveReturned(f, outcome) ==
    /\ f \in ReturnedFutures
    /\ ~IsDone(heap, f)
    /\ heap' = SetOutcome(heap, f, outcome)
    /\ last' = Step("resolve", f)

NextRpc ==
    \/ \E subscriber \in RpcSubscribers, identifier \in Identifiers :
            AddRpcSubscriber(subscriber, identifier)
    \/ \E recipient_id \in Identifiers, msg \in Messages : RpcSend(recipient_id, msg)
    \/ \E req \in 1..Len(heap) : Deliver(req)
    \/ RunTask
    \/ TaskDone
    \/ \E a \in 1..Len(heap), b \in 1..Len(heap) : CopyChained(a, b)
    \/ \E req \in 1..Len(heap) : Respond(req)
    \/ \E f \in 1..Len(heap), outcome \in {Result("late"), Exception("LateError")} :
            ResolveReturned(f, outcome)

\* the wrapped communicator delivers and answers, and the loop runs
FairRpc ==
    /\ WF_vars(\E req \in 1..Len(heap) : Deliver(req))
    /\ WF_vars(RunTask)
    /\ WF_vars(TaskDone)
    /\ WF_vars(\E a \in 1..Len(heap), b \in 1..Len(heap) : CopyChained(a, b))
    /\ WF_vars(\E req \in 1..Len(heap) : Respond(req))

SpecRpc == InitRpc /\ [][NextRpc]_vars /\ FairRpc

(***************************************************************************)
(* Properties of RPC through the wrapper, checked under SpecRpc.           *)
(***************************************************************************)
Sent(msg) == \E req \in Requests : heap[req].msg = msg
RequestOf(msg) == CHOOSE req \in Requests : heap[req].msg = msg

\* the calls of the registered subscriber with msg that the wrapper's loop
\* has made
CallsWith(msg) ==
    {i \in 1..Len(heap[LoopOf(heap, heap[2].loop)].calls) :
        /\ heap[3].calls[i].msg = msg
        /\ heap[3].calls[i].callback =
                heap[heap[1].rpc[heap[RequestOf(msg)].recipient]].callback}

CalledWith(msg) == Sent(msg) /\ CallsWith(msg) # {}

\* what the subscriber's call came to: the value returned, the exception
\* raised, or the outcome of the future returned
SubscriberOutcome(msg) ==
    LET outcome == heap[3].calls[CHOOSE i \in CallsWith(msg) : TRUE].outcome
    IN  IF is_future(outcome) THEN heap[outcome.ref].outcome ELSE outcome

Settled(msg) == CalledWith(msg) /\ SubscriberOutcome(msg).kind # "none"

Answered(msg) ==
    /\ Settled(msg)
    /\ heap[heap[RequestOf(msg)].future].outcome = SubscriberOutcome(msg)

\* the sender's future is done only with what the subscriber's one call
\* came to
AnsweredRight ==
    \A msg \in Messages :
        Sent(msg) =>
            /\ Cardinality(CallsWith(msg)) <= 1
            /\ IsDone(heap, heap[RequestOf(msg)].future) => Answered(msg)

C12_WitnessException ==
    \E msg \in Messages :
        /\ Sent(msg)
        /\ Answered(msg)
        /\ heap[heap[RequestOf(msg)].future].outcome = Exception("RuntimeError")

====
